---- MODULE Spec2Model ----
(***************************************************************************)
(* A model of oxbow's GXF attribute layer (AttributeDef, AttributeType,    *)
(* AttributeValue, AttributeBuilder, AttributeScanner) and of the FASTA    *)
(* Scanner::scan entry point.                                              *)
(*                                                                         *)
(* Text is modelled as a sequence of Unicode scalar values (naturals), so  *)
(* that case folding and the ordering of names are computed, not assumed.  *)
(***************************************************************************)
EXTENDS Integers, Sequences, FiniteSets, TLC

VARIABLES
    \* --- AttributeDef construction -------------------------------------
    inputs,      \* slot -> the (name, type-string) pair last given to try_from
    defs,        \* slot -> the Result that try_from returned for it
    field,       \* get_arrow_field of a slot's current definition, once asked
    eq,          \* slot 1 == slot 2 for the current definitions, once asked
    \* --- AttributeScanner ----------------------------------------------
    attrs,       \* the BTreeMap<String, String>, as its in-order entry list
    seen,        \* history: names that appeared in a pushed record
    observed,    \* history: (name, shape) pairs that appeared in a pushed record
    dialects,    \* history: the dialects ("gtf", "gff") of the records pushed
    collected,   \* the Vec last returned by collect()
    \* --- AttributeBuilder ----------------------------------------------
    builder,     \* the AttributeBuilder (variant and arrow builder buffers)
    lastOp,      \* history: the last call on the builder and how it ended
    nops,        \* history: number of calls made on the builder
    log,         \* history: successful appends since construction / last finish
    finishedLog, \* history: the appends that went into the last finished column
    column,      \* the ArrayRef last returned by finish
    finishCount, \* history: number of finish calls
    \* --- FASTA sequential scan -----------------------------------------
    stream,      \* number of records in the reader's stream
    limitOpt,    \* the limit argument of scan (Option<usize>)
    batchOpt,    \* the batch_size argument of scan (Option<usize>)
    iter,        \* the BatchIterator returned by scan
    pos,         \* number of records the reader has been advanced over
    batches,     \* the batches yielded so far
    done         \* the iterator has returned None

defVars == <<inputs, defs, field, eq>>
scannerVars == <<attrs, seen, observed, dialects, collected>>
builderVars == <<builder, lastOp, nops, log, finishedLog, column, finishCount>>
scanVars == <<stream, limitOpt, batchOpt, iter, pos, batches, done>>
vars == <<defVars, scannerVars, builderVars, scanVars>>

(***************************************************************************)
(* Text                                                                    *)
(***************************************************************************)
\* "string", "array": the literals try_from matches against.
LitString == <<115, 116, 114, 105, 110, 103>>
LitArray == <<97, 114, 114, 97, 121>>
\* "String", "Array": the literals the scanner records.
TagString == <<83, 116, 114, 105, 110, 103>>
TagArray == <<65, 114, 114, 97, 121>>

\* char::to_lowercase, on the scalar values the inputs below use: ASCII
\* capitals, U+0130 (which lowers to two scalars) and U+212A (which lowers to k).
ToLowerChar(c) ==
    IF c >= 65 /\ c <= 90 THEN <<c + 32>>
    ELSE IF c = 304 THEN <<105, 775>>
    ELSE IF c = 8490 THEN <<107>>
    ELSE <<c>>

RECURSIVE to_lowercase(_)
to_lowercase(s) ==
    IF s = <<>> THEN <<>> ELSE ToLowerChar(Head(s)) \o to_lowercase(Tail(s))

\* Ord for String: lexicographic on the scalar values.
RECURSIVE StrLess(_, _)
StrLess(a, b) ==
    IF b = <<>> THEN FALSE
    ELSE IF a = <<>> THEN TRUE
    ELSE IF Head(a) # Head(b) THEN Head(a) < Head(b)
    ELSE StrLess(Tail(a), Tail(b))

(***************************************************************************)
(* AttributeType, AttributeDef                                             *)
(***************************************************************************)
AttributeType == {"String", "Array"}

\* DataType::Utf8, or DataType::List of a nullable Utf8 field named "item".
arrow_type(ty) ==
    IF ty = "String"
    THEN [id |-> "Utf8", fields |-> <<>>]
    ELSE [id |-> "List",
          fields |-> <<[name |-> "item", data_type |-> "Utf8", nullable |-> TRUE]>>]

get_arrow_field(def) ==
    [name |-> def.name, data_type |-> arrow_type(def.ty), nullable |-> TRUE]

Ok(name, ty) == [tag |-> "Ok", name |-> name, ty |-> ty, kind |-> "none"]
Err(kind) == [tag |-> "Err", name |-> <<>>, ty |-> "none", kind |-> kind]
NoResult == [tag |-> "None", name |-> <<>>, ty |-> "none", kind |-> "none"]

\* Mutant of try_from: the type string is matched without lowering it first.
try_from_exact(def) ==
    IF def[2] = LitString THEN Ok(def[1], "String")
    ELSE IF def[2] = LitArray THEN Ok(def[1], "Array")
    ELSE Err("InvalidInput")

try_from(def) ==
    LET name == def[1]
        ty == to_lowercase(def[2])
    IN  IF ty = LitString THEN Ok(name, "String")
        ELSE IF ty = LitArray THEN Ok(name, "Array")
        ELSE Err("InvalidInput")

\* Mutant of DefEq: only the name is compared.
DefEqByName(a, b) == a.name = b.name

\* #[derive(PartialEq, Eq)] on AttributeDef: field by field.
DefEq(a, b) == a.name = b.name /\ a.ty = b.ty

\* Names and type strings the callers below pass in.
Names == {<<>>, <<97>>, <<98>>, <<97, 98>>}
TypeStrings ==
    { LitString, TagString,
      <<83, 84, 82, 73, 78, 71>>,          \* STRING
      <<115, 84, 114, 73, 110, 71>>,       \* sTrInG
      LitArray, TagArray,
      <<65, 82, 82, 65, 89>>,              \* ARRAY
      <<>>,                                \* empty
      <<115, 116, 114>>,                   \* str
      <<115, 116, 114, 105, 110, 103, 115>>, \* strings
      <<83, 116, 114, 105, 110, 103, 32>>, \* "String " with a trailing blank
      <<108, 105, 115, 116>>,              \* list
      <<83, 84, 82, 304, 78, 71>>,         \* STR(U+0130)NG
      <<97, 114, 114, 97>> }               \* arra

Slots == {1, 2}
NoInput == <<<<>>, <<>>>>
NoField == [tag |-> "None", slot |-> 1, f |-> get_arrow_field(NoResult)]

DefInit ==
    /\ inputs = [s \in Slots |-> NoInput]
    /\ defs = [s \in Slots |-> NoResult]
    /\ field = NoField
    /\ eq = "none"

\* AttributeDef::try_from((name, ty)), its result kept in a slot.
TryFrom(s, name, ty) ==
    /\ inputs' = [inputs EXCEPT ![s] = <<name, ty>>]
    /\ defs' = [defs EXCEPT ![s] = try_from(<<name, ty>>)]
    /\ field' = NoField
    /\ eq' = "none"

\* def.get_arrow_field() on a constructed definition.
GetArrowField(s) ==
    /\ defs[s].tag = "Ok"
    /\ field' = [tag |-> "Some", slot |-> s, f |-> get_arrow_field(defs[s])]
    /\ UNCHANGED <<inputs, defs, eq>>

\* a == b on two constructed definitions.
Compare ==
    /\ \A s \in Slots : defs[s].tag = "Ok"
    /\ eq' = IF DefEq(defs[1], defs[2]) THEN "true" ELSE "false"
    /\ UNCHANGED <<inputs, defs, field>>


(***************************************************************************)
(* AttributeScanner                                                        *)
(***************************************************************************)
\* Longest record (number of attribute entries) pushed.
MaxEntries == 2

\* BTreeMap<String, String> is kept as the list of its entries <<key, value>>
\* in iteration order, which for a BTreeMap is ascending key order.
AttributeScanner_new == <<>>

ContainsKey(m, k) == \E i \in DOMAIN m : m[i][1] = k

\* The value stored for k; the empty string when k is absent (no stored type
\* string is empty).
Get(m, k) ==
    IF ContainsKey(m, k) THEN (CHOOSE e \in {m[i] : i \in DOMAIN m} : e[1] = k)[2]
    ELSE <<>>

Keys(m) == {m[i][1] : i \in DOMAIN m}

\* Where a new key goes: before the first entry whose key is not smaller.
InsertionPoint(m, k) ==
    IF \E i \in DOMAIN m : ~StrLess(m[i][1], k)
    THEN CHOOSE i \in DOMAIN m :
            /\ ~StrLess(m[i][1], k)
            /\ \A j \in 1..(i - 1) : StrLess(m[j][1], k)
    ELSE Len(m) + 1

\* Mutant of or_insert_with: insert, which replaces the value of a known key.
or_insert_replacing(m, k, v) ==
    IF ContainsKey(m, k)
    THEN [i \in DOMAIN m |-> IF m[i][1] = k THEN <<k, v>> ELSE m[i]]
    ELSE LET p == InsertionPoint(m, k)
         IN  SubSeq(m, 1, p - 1) \o <<<<k, v>>>> \o SubSeq(m, p, Len(m))

\* Mutant of or_insert_with: a new key is put at the end (insertion order).
or_insert_at_end(m, k, v) ==
    IF ContainsKey(m, k) THEN m ELSE Append(m, <<k, v>>)

\* Mutant of or_insert_with: an array value is recorded as "List".
or_insert_recording_list(m, k, v) ==
    IF ContainsKey(m, k) THEN m
    ELSE LET p == InsertionPoint(m, k)
             w == IF v = TagArray THEN <<76, 105, 115, 116>> ELSE v
         IN  SubSeq(m, 1, p - 1) \o <<<<k, w>>>> \o SubSeq(m, p, Len(m))

\* attrs.entry(k).or_insert_with(|| v)
or_insert_with(m, k, v) ==
    IF ContainsKey(m, k) THEN m
    ELSE LET p == InsertionPoint(m, k)
         IN  SubSeq(m, 1, p - 1) \o <<<<k, v>>>> \o SubSeq(m, p, Len(m))

\* A record's attributes: entries <<key, shape>>, shape the value's variant.
Shapes == {"String", "Array"}

RECURSIVE SeqsUpTo(_, _)
SeqsUpTo(S, n) ==
    IF n = 0 THEN {<<>>}
    ELSE LET shorter == SeqsUpTo(S, n - 1)
         IN  shorter \cup {Append(r, e) : r \in shorter, e \in S}

\* GTF entries are single-valued; GFF entries are a string or an array.
GtfRecords == SeqsUpTo(Names \X {"String"}, MaxEntries)
GffRecords == SeqsUpTo(Names \X Shapes, MaxEntries)

\* Push<gtf::Record>::push: every entry's key is recorded as "String".
RECURSIVE push_gtf(_, _)
push_gtf(m, record) ==
    IF record = <<>> THEN m
    ELSE push_gtf(or_insert_with(m, Head(record)[1], TagString), Tail(record))

\* Push<gff::Record>::push: the type string follows the value's variant.
RECURSIVE push_gff(_, _)
push_gff(m, record) ==
    IF record = <<>> THEN m
    ELSE push_gff(
            or_insert_with(m, Head(record)[1],
                IF Head(record)[2] = "String" THEN TagString ELSE TagArray),
            Tail(record))

\* AttributeScanner::collect: the entries, cloned, in the map's order.
collect(m) == [i \in DOMAIN m |-> <<m[i][1], m[i][2]>>]

NotCollected == [tag |-> "None", v |-> <<>>]

ScannerInit ==
    /\ attrs = AttributeScanner_new
    /\ seen = {}
    /\ observed = {}
    /\ dialects = {}
    /\ collected = NotCollected

Entries(record) == {record[i] : i \in DOMAIN record}

PushGtf(record) ==
    /\ attrs' = push_gtf(attrs, record)
    /\ seen' = seen \cup {e[1] : e \in Entries(record)}
    /\ observed' = observed \cup Entries(record)
    /\ dialects' = dialects \cup {"gtf"}
    /\ collected' = NotCollected

PushGff(record) ==
    /\ attrs' = push_gff(attrs, record)
    /\ seen' = seen \cup {e[1] : e \in Entries(record)}
    /\ observed' = observed \cup Entries(record)
    /\ dialects' = dialects \cup {"gff"}
    /\ collected' = NotCollected

Collect ==
    /\ collected' = [tag |-> "Some", v |-> collect(attrs)]
    /\ UNCHANGED <<attrs, seen, observed, dialects>>


(***************************************************************************)
(* AttributeValue, AttributeBuilder                                        *)
(***************************************************************************)
\* Number of calls made on one builder.
MaxOps == 4

StringValue(v) == [kind |-> "String", v |-> v]
ArrayValue(v) == [kind |-> "Array", v |-> v]

\* From<&GffValue> / From<GtfEntry>: the values a record's attribute turns into.
StringTexts == {<<>>, <<120>>, <<121, 122>>}
ArrayTexts == {<<>>, <<<<>>>>, <<<<120>>>>, <<<<121, 122>>, <<120>>>>}
AttributeValue ==
    {StringValue(v) : v \in StringTexts} \cup {ArrayValue(v) : v \in ArrayTexts}

\* GenericStringBuilder<i32>: the value bytes, the offsets (one more than the
\* entries, starting at 0) and the validity bits.
StringBuilder_new == [value |-> <<>>, offsets |-> <<0>>, validity |-> <<>>]

StringBuilder_append_value(b, v) ==
    [value |-> b.value \o v,
     offsets |-> Append(b.offsets, Len(b.value) + Len(v)),
     validity |-> Append(b.validity, TRUE)]

StringBuilder_append_null(b) ==
    [value |-> b.value,
     offsets |-> Append(b.offsets, Len(b.value)),
     validity |-> Append(b.validity, FALSE)]

StringBuilder_len(b) == Len(b.validity)

\* ListBuilder<GenericStringBuilder<i32>>: the child builder, the offsets into
\* the child's entries and the validity bits.
ListBuilder_new ==
    [values |-> StringBuilder_new, offsets |-> <<0>>, validity |-> <<>>]

\* builder.append(is_valid): closes one list entry at the child's length.
ListBuilder_append(b, is_valid) ==
    [values |-> b.values,
     offsets |-> Append(b.offsets, StringBuilder_len(b.values)),
     validity |-> Append(b.validity, is_valid)]

\* for value in array.iter() { builder.values().append_value(value) }
RECURSIVE AppendChildren(_, _)
AppendChildren(b, array) ==
    IF array = <<>> THEN b
    ELSE AppendChildren(
            [b EXCEPT !.values = StringBuilder_append_value(@, Head(array))],
            Tail(array))

AttributeBuilder_new(attr_type) ==
    IF attr_type = "String"
    THEN [kind |-> "String", inner |-> StringBuilder_new]
    ELSE [kind |-> "Array", inner |-> ListBuilder_new]

\* Mutant of append_null: a list builder gets a present entry instead.
append_null_as_present(b) ==
    IF b.kind = "String"
    THEN [b EXCEPT !.inner = StringBuilder_append_null(@)]
    ELSE [b EXCEPT !.inner = ListBuilder_append(@, TRUE)]

append_null(b) ==
    IF b.kind = "String"
    THEN [b EXCEPT !.inner = StringBuilder_append_null(@)]
    ELSE [b EXCEPT !.inner = ListBuilder_append(@, FALSE)]

\* Mutant of append_value: an empty array closes no list entry.
append_value_skipping_empty(b, value) ==
    IF b.kind # value.kind THEN [b |-> b, res |-> "InvalidInput"]
    ELSE IF b.kind = "String"
    THEN [b |-> [b EXCEPT !.inner = StringBuilder_append_value(@, value.v)],
          res |-> "Ok"]
    ELSE [b |-> [b EXCEPT !.inner =
                    IF value.v = <<>> THEN @
                    ELSE ListBuilder_append(AppendChildren(@, value.v), TRUE)],
          res |-> "Ok"]

\* Mutant of append_value: a string given to a list builder is put in the
\* child buffer before the mismatch is reported.
append_value_partial(b, value) ==
    IF b.kind = "String"
    THEN IF value.kind = "String"
         THEN [b |-> [b EXCEPT !.inner = StringBuilder_append_value(@, value.v)],
               res |-> "Ok"]
         ELSE [b |-> b, res |-> "InvalidInput"]
    ELSE IF value.kind = "Array"
         THEN [b |-> [b EXCEPT !.inner =
                         ListBuilder_append(AppendChildren(@, value.v), TRUE)],
               res |-> "Ok"]
         ELSE [b |-> [b EXCEPT !.inner = AppendChildren(@, <<value.v>>)],
               res |-> "InvalidInput"]

\* The builder after the call, and Ok(()) or the error's kind.
append_value(b, value) ==
    IF b.kind = "String"
    THEN IF value.kind = "String"
         THEN [b |-> [b EXCEPT !.inner = StringBuilder_append_value(@, value.v)],
               res |-> "Ok"]
         ELSE [b |-> b, res |-> "InvalidInput"]
    ELSE IF value.kind = "Array"
         THEN [b |-> [b EXCEPT !.inner =
                         ListBuilder_append(AppendChildren(@, value.v), TRUE)],
               res |-> "Ok"]
         ELSE [b |-> b, res |-> "InvalidInput"]

\* GenericStringBuilder::finish: the array of what was appended.
StringBuilder_finish(b) ==
    [value |-> b.value, offsets |-> b.offsets, validity |-> b.validity]

\* ListBuilder::finish: the list array over the finished child array.
ListBuilder_finish(b) ==
    [values |-> StringBuilder_finish(b.values),
     offsets |-> b.offsets, validity |-> b.validity]

\* Mutant of finish: the buffers are handed out but not reset.
finish_keeping(b) ==
    [array |-> [kind |-> b.kind,
                data |-> IF b.kind = "String" THEN StringBuilder_finish(b.inner)
                         ELSE ListBuilder_finish(b.inner)],
     b |-> b]

\* finish(&mut self): the finished array, and the builder, which the arrow
\* builders leave reset to their empty state.
finish(b) ==
    [array |-> [kind |-> b.kind,
                data |-> IF b.kind = "String" THEN StringBuilder_finish(b.inner)
                         ELSE ListBuilder_finish(b.inner)],
     b |-> AttributeBuilder_new(b.kind)]

\* Reading a finished array: its length, and entry i as its validity bit and
\* the text (for a list, the child texts) its offsets delimit.
ArrayLen(a) == Len(a.data.offsets) - 1

StringAt(d, i) == SubSeq(d.value, d.offsets[i] + 1, d.offsets[i + 1])

EntryAt(a, i) ==
    [present |-> a.data.validity[i],
     val |-> IF a.kind = "String" THEN StringAt(a.data, i)
             ELSE [j \in 1..(a.data.offsets[i + 1] - a.data.offsets[i]) |->
                      StringAt(a.data.values, a.data.offsets[i] + j)]]

Rows(a) == [i \in 1..ArrayLen(a) |-> EntryAt(a, i)]

NullEntry == [present |-> FALSE, val |-> <<>>]
ValueEntry(value) == [present |-> TRUE, val |-> value.v]

NoOp == [op |-> "none", arg |-> "none", res |-> "none"]
NoColumn == [kind |-> "None", data |-> StringBuilder_new]

BuilderInit ==
    /\ builder \in {AttributeBuilder_new(t) : t \in AttributeType}
    /\ lastOp = NoOp
    /\ nops = 0
    /\ log = <<>>
    /\ finishedLog = <<>>
    /\ column = NoColumn
    /\ finishCount = 0

AppendNull ==
    /\ nops < MaxOps
    /\ builder' = append_null(builder)
    /\ lastOp' = [op |-> "append_null", arg |-> "none", res |-> "Ok"]
    /\ nops' = nops + 1
    /\ log' = Append(log, NullEntry)
    /\ UNCHANGED <<finishedLog, column, finishCount>>

AppendValue(value) ==
    /\ nops < MaxOps
    /\ LET r == append_value(builder, value)
       IN  /\ builder' = r.b
           /\ lastOp' = [op |-> "append_value", arg |-> value.kind, res |-> r.res]
           /\ log' = IF r.res = "Ok" THEN Append(log, ValueEntry(value)) ELSE log
    /\ nops' = nops + 1
    /\ UNCHANGED <<finishedLog, column, finishCount>>

Finish ==
    /\ nops < MaxOps
    /\ LET r == finish(builder)
       IN  /\ column' = r.array
           /\ builder' = r.b
    /\ lastOp' = [op |-> "finish", arg |-> "none", res |-> "Ok"]
    /\ nops' = nops + 1
    /\ finishedLog' = log
    /\ log' = <<>>
    /\ finishCount' = finishCount + 1


(***************************************************************************)
(* FASTA Scanner::scan and the BatchIterator it returns                    *)
(***************************************************************************)
\* Longest stream, largest limit and largest batch size tried.
MaxRecords == 4
MaxLimit == 3
MaxBatch == 3

None == [some |-> FALSE, v |-> 0]
Some(n) == [some |-> TRUE, v |-> n]
unwrap_or(opt, default) == IF opt.some THEN opt.v ELSE default

Min(a, b) == IF a < b THEN a ELSE b

\* BatchIterator::new(reader, builder, batch_size, limit): nothing read yet.
BatchIterator_new(batch_size, limit) ==
    [batch_size |-> batch_size, limit |-> limit, count |-> 0]

\* How many records the next batch takes: up to batch_size, no more than the
\* limit leaves, no more than the stream holds.
BatchIterator_take(it, remaining) ==
    LET room == IF it.limit.some THEN it.limit.v - it.count ELSE remaining
    IN  Min(it.batch_size, Min(room, remaining))

\* Mutant of scan: scan_query's default batch size.
scan_default_1024(batch_size, limit) ==
    BatchIterator_new(unwrap_or(batch_size, 1024), limit)

\* Scanner::scan(fmt_reader, fields, batch_size, limit)
scan(batch_size, limit) ==
    BatchIterator_new(unwrap_or(batch_size, 1), limit)

NoIter == [batch_size |-> 0, limit |-> None, count |-> 0]

ScanInit ==
    /\ stream \in 0..MaxRecords
    /\ limitOpt \in {None} \cup {Some(n) : n \in 0..MaxLimit}
    /\ batchOpt \in {None} \cup {Some(n) : n \in 1..MaxBatch}
    /\ iter = NoIter
    /\ pos = 0
    /\ batches = <<>>
    /\ done = FALSE

\* The caller asks for the scan.
Scan ==
    /\ iter = NoIter
    /\ iter' = scan(batchOpt, limitOpt)
    /\ UNCHANGED <<stream, limitOpt, batchOpt, pos, batches, done>>

\* One pull that yields a batch: the records pos+1 .. pos+n, in file order.
NextBatch ==
    /\ iter # NoIter
    /\ ~done
    /\ LET n == BatchIterator_take(iter, stream - pos)
       IN  /\ n > 0
           /\ batches' = Append(batches, [i \in 1..n |-> pos + i])
           /\ pos' = pos + n
           /\ iter' = [iter EXCEPT !.count = @ + n]
    /\ UNCHANGED <<stream, limitOpt, batchOpt, done>>

\* One pull that finds the limit reached or the stream exhausted: None.
NextNone ==
    /\ iter # NoIter
    /\ ~done
    /\ BatchIterator_take(iter, stream - pos) = 0
    /\ done' = TRUE
    /\ UNCHANGED <<stream, limitOpt, batchOpt, iter, pos, batches>>


(***************************************************************************)
(* Specifications: one per component; the others stay as constructed.      *)
(***************************************************************************)
DefIdle ==
    /\ inputs = [s \in Slots |-> NoInput]
    /\ defs = [s \in Slots |-> NoResult]
    /\ field = NoField
    /\ eq = "none"

BuilderIdle ==
    /\ builder = AttributeBuilder_new("String")
    /\ lastOp = NoOp
    /\ nops = 0
    /\ log = <<>>
    /\ finishedLog = <<>>
    /\ column = NoColumn
    /\ finishCount = 0

ScanIdle ==
    /\ stream = 0
    /\ limitOpt = None
    /\ batchOpt = None
    /\ iter = NoIter
    /\ pos = 0
    /\ batches = <<>>
    /\ done = FALSE

DefSpecInit == DefInit /\ ScannerInit /\ BuilderIdle /\ ScanIdle
DefSpecNext ==
    \/ \E s \in Slots, name \in Names, ty \in TypeStrings :
          TryFrom(s, name, ty) /\ UNCHANGED <<scannerVars, builderVars, scanVars>>
    \/ \E s \in Slots :
          GetArrowField(s) /\ UNCHANGED <<scannerVars, builderVars, scanVars>>
    \/ Compare /\ UNCHANGED <<scannerVars, builderVars, scanVars>>
DefSpec == DefSpecInit /\ [][DefSpecNext]_vars

ScannerSpecInit == DefIdle /\ ScannerInit /\ BuilderIdle /\ ScanIdle
ScannerSpecNext ==
    \/ \E record \in GtfRecords :
          PushGtf(record) /\ UNCHANGED <<defVars, builderVars, scanVars>>
    \/ \E record \in GffRecords :
          PushGff(record) /\ UNCHANGED <<defVars, builderVars, scanVars>>
    \/ Collect /\ UNCHANGED <<defVars, builderVars, scanVars>>
ScannerSpec == ScannerSpecInit /\ [][ScannerSpecNext]_vars

BuilderSpecInit == DefIdle /\ ScannerInit /\ BuilderInit /\ ScanIdle
BuilderSpecNext ==
    \/ AppendNull /\ UNCHANGED <<defVars, scannerVars, scanVars>>
    \/ \E value \in AttributeValue :
          AppendValue(value) /\ UNCHANGED <<defVars, scannerVars, scanVars>>
    \/ Finish /\ UNCHANGED <<defVars, scannerVars, scanVars>>
BuilderSpec == BuilderSpecInit /\ [][BuilderSpecNext]_vars

ScanSpecInit == DefIdle /\ ScannerInit /\ BuilderIdle /\ ScanInit
ScanSpecNext ==
    \/ Scan /\ UNCHANGED <<defVars, scannerVars, builderVars>>
    \/ NextBatch /\ UNCHANGED <<defVars, scannerVars, builderVars>>
    \/ NextNone /\ UNCHANGED <<defVars, scannerVars, builderVars>>
ScanSpec == ScanSpecInit /\ [][ScanSpecNext]_vars

\* The whole program: any component may take a step.
Init == DefInit /\ ScannerInit /\ BuilderInit /\ ScanInit
Next == DefSpecNext \/ ScannerSpecNext \/ BuilderSpecNext \/ ScanSpecNext
Spec == Init /\ [][Next]_vars

(***************************************************************************)
(* Properties                                                              *)
(***************************************************************************)
\* t is w up to the case of its (ASCII) letters; w is in lower case.
CaseInsensitiveEq(t, w) ==
    /\ Len(t) = Len(w)
    /\ \A i \in 1..Len(w) : t[i] = w[i] \/ t[i] = w[i] - 32

Utf8Type == [id |-> "Utf8", fields |-> <<>>]
ListOfUtf8Type ==
    [id |-> "List",
     fields |-> <<[name |-> "item", data_type |-> "Utf8", nullable |-> TRUE]>>]

\* C1: try_from succeeds exactly when the type string is "string" or "array"
\* up to case, giving type String resp. Array under the given name, whose
\* arrow type is Utf8 resp. a list of Utf8 with child field "item"; any other
\* type string, with any name, gives an InvalidInput error and no definition.
C1_TryFromAcceptsStringOrArray ==
    /\ \A s \in Slots :
          defs[s].tag # "None" =>
             LET name == inputs[s][1]
                 ty == inputs[s][2]
             IN  IF CaseInsensitiveEq(ty, LitString)
                 THEN defs[s] = Ok(name, "String") /\ arrow_type(defs[s].ty) = Utf8Type
                 ELSE IF CaseInsensitiveEq(ty, LitArray)
                 THEN defs[s] = Ok(name, "Array")
                      /\ arrow_type(defs[s].ty) = ListOfUtf8Type
                 ELSE defs[s] = Err("InvalidInput")
    /\ field.tag = "Some" =>
          /\ field.f.name = inputs[field.slot][1]
          /\ field.f.data_type =
                IF CaseInsensitiveEq(inputs[field.slot][2], LitString)
                THEN Utf8Type ELSE ListOfUtf8Type

\* "ARRAY" was accepted as Array and its arrow field asked for, while
\* "String " (trailing blank) was refused.
C1_Witness ==
    /\ inputs[1][2] = <<65, 82, 82, 65, 89>>
    /\ defs[1].tag = "Ok" /\ defs[1].ty = "Array"
    /\ field.tag = "Some" /\ field.slot = 1
    /\ inputs[2][2] = <<83, 116, 114, 105, 110, 103, 32>>
    /\ defs[2].tag = "Err"

\* C2: first-seen wins: no push changes the type stored for a name already
\* recorded, nor removes the name; what collect() returns is what is stored.
C2_FirstSeenWins ==
    [][ /\ \A k \in Keys(attrs) : ContainsKey(attrs', k) /\ Get(attrs', k) = Get(attrs, k)
        /\ collected'.tag = "Some" =>
              \A i \in DOMAIN collected'.v :
                 collected'.v[i][2] = Get(attrs', collected'.v[i][1]) ]_vars

\* A name was seen as a scalar first and as an array later, and collect()
\* reports it as "String".
C2_Witness ==
    /\ collected.tag = "Some"
    /\ \E i \in DOMAIN collected.v :
          /\ collected.v[i][2] = TagString
          /\ <<collected.v[i][1], "Array">> \in observed
          /\ <<collected.v[i][1], "String">> \in observed

\* C3: what collect() returns is strictly ascending by name, holds no name
\* twice, and holds exactly the names that appeared in a pushed record.
C3_CollectSortedUnique ==
    collected.tag = "Some" =>
       LET v == collected.v
       IN  /\ \A i \in 1..(Len(v) - 1) : StrLess(v[i][1], v[i + 1][1])
           /\ \A i, j \in DOMAIN v : i # j => v[i][1] # v[j][1]
           /\ {v[i][1] : i \in DOMAIN v} = seen

\* Every name was pushed, one of them with both shapes, and collected.
C3_Witness ==
    /\ collected.tag = "Some"
    /\ Len(collected.v) = Cardinality(Names)
    /\ \E k \in Names : <<k, "Array">> \in observed /\ <<k, "String">> \in observed

\* C10: every pair collect() returns has type string "String" or "Array" and
\* try_from accepts it, giving the same name and the matching type; when
\* only GTF records were pushed every type string is "String".
C10_CollectedSchemaIsAccepted ==
    collected.tag = "Some" =>
       \A i \in DOMAIN collected.v :
          LET pair == collected.v[i]
          IN  /\ pair[2] \in {TagString, TagArray}
              /\ try_from(pair) =
                    Ok(pair[1], IF pair[2] = TagString THEN "String" ELSE "Array")
              /\ dialects \subseteq {"gtf"} => pair[2] = TagString

\* A collected schema with a String and an Array column, from both dialects.
C10_Witness ==
    /\ collected.tag = "Some"
    /\ dialects = {"gtf", "gff"}
    /\ \E i, j \in DOMAIN collected.v :
          collected.v[i][2] = TagString /\ collected.v[j][2] = TagArray

\* C4: the first finish of a fresh builder, after N successful appends,
\* returns a column of length N whose entry i is null when the i-th append
\* was append_null and otherwise holds the i-th appended value.
C4_FinishRoundTrip ==
    finishCount = 1 =>
       /\ ArrayLen(column) = Len(finishedLog)
       /\ \A i \in 1..Len(finishedLog) :
             /\ EntryAt(column, i).present = finishedLog[i].present
             /\ finishedLog[i].present => EntryAt(column, i).val = finishedLog[i].val

\* A column of three entries mixing a null and values was finished.
C4_Witness ==
    /\ finishCount = 1
    /\ lastOp.op = "finish"
    /\ Len(finishedLog) = 3
    /\ \E i, j \in 1..3 : ~finishedLog[i].present /\ finishedLog[j].present

\* C5: append_value with a value of the other variant returns an error and
\* leaves the builder (entries and child buffer) as it was.
C5_MismatchLeavesBuilder ==
    [][ (nops' = nops + 1 /\ lastOp'.op = "append_value" /\ lastOp'.arg # builder.kind)
           => (lastOp'.res = "InvalidInput" /\ builder' = builder) ]_vars

\* A list builder holding entries has just refused a String value.
C5_Witness ==
    /\ builder.kind = "Array"
    /\ lastOp.op = "append_value" /\ lastOp.arg = "String"
    /\ lastOp.res = "InvalidInput"
    /\ Len(log) >= 2

\* C7 as stated: finish is one-shot: once finish has been called, it was the
\* last call on that builder and there is no second column.
C7_FinishIsOneShot ==
    finishCount > 0 => (finishCount = 1 /\ lastOp.op = "finish")

\* C7 as amended: finish leaves the builder empty and usable; each finish
\* returns exactly the entries appended since construction or the previous
\* finish.
C7_FinishResetsBuilder ==
    lastOp.op = "finish" =>
       /\ builder = AttributeBuilder_new(builder.kind)
       /\ Rows(column) = finishedLog

\* The same builder was finished a second time, with a non-empty column.
C7_Witness ==
    /\ finishCount = 2
    /\ lastOp.op = "finish"
    /\ Len(finishedLog) > 0
    /\ ArrayLen(column) > 0

\* The entries a builder holds: those of the column finish would return.
BuilderRows(b) == Rows(finish(b).array)

\* C8: each successful append adds exactly one entry to the builder:
\* append_null a null one without children (and nothing to the child buffer),
\* append_value(Array(xs)) a present one whose children are xs, also when xs
\* is empty, so the two differ; append_null on a String builder a null scalar.
C8_NullVersusEmpty ==
    [][ (nops' = nops + 1 /\ lastOp'.op # "finish" /\ lastOp'.res = "Ok") =>
           /\ BuilderRows(builder') = Append(BuilderRows(builder), log'[Len(log')])
           /\ log'[Len(log')].present = (lastOp'.op = "append_value")
           /\ (lastOp'.op = "append_null" /\ builder.kind = "Array") =>
                 builder'.inner.values = builder.inner.values ]_vars

\* A list builder holds a null entry and a present empty entry.
C8_Witness ==
    /\ builder.kind = "Array"
    /\ Len(log) = 2
    /\ BuilderRows(builder) = <<NullEntry, ValueEntry(ArrayValue(<<>>))>>

\* C9 as stated: two definitions compare equal exactly when their names are
\* equal.
C9_EqualityByNameAlone ==
    eq # "none" => ((eq = "true") <=> (inputs[1][1] = inputs[2][1]))

\* C9 as amended: two definitions compare equal exactly when their names
\* are equal and their types are equal.
C9_EqualityByNameAndType ==
    eq # "none" =>
       ((eq = "true") <=>
          /\ inputs[1][1] = inputs[2][1]
          /\ CaseInsensitiveEq(inputs[1][2], LitString)
                <=> CaseInsensitiveEq(inputs[2][2], LitString))

\* Two definitions with the same name and different types compared unequal.
C9_Witness ==
    /\ eq = "false"
    /\ inputs[1][1] = inputs[2][1]
    /\ defs[1].ty # defs[2].ty

\* The batch size the scan is to use: the one given, 1 when none is.
GivenBatchSize == IF batchOpt.some THEN batchOpt.v ELSE 1

CeilDiv(a, b) == (a + b - 1) \div b

RECURSIVE Flatten(_)
Flatten(ss) == IF ss = <<>> THEN <<>> ELSE Head(ss) \o Flatten(Tail(ss))

\* C6: with limit L over a stream of more than L records, the reader is
\* never advanced past record L, no batch exceeds the batch size, and the
\* finished scan has yielded ceil(L / batch_size) batches that hold records
\* 1..L in file order.
C6_LimitedScan ==
    (limitOpt.some /\ stream > limitOpt.v) =>
       /\ pos <= limitOpt.v
       /\ \A b \in DOMAIN batches : Len(batches[b]) <= GivenBatchSize
       /\ done =>
             /\ Len(batches) = CeilDiv(limitOpt.v, GivenBatchSize)
             /\ Flatten(batches) = [i \in 1..limitOpt.v |-> i]

\* A scan past the largest limit, with a batch size that does not divide it, ended after more than one
\* batch.
C6_Witness ==
    /\ done
    /\ limitOpt = Some(MaxLimit) /\ stream > MaxLimit
    /\ batchOpt = Some(MaxBatch - 1)
    /\ Len(batches) = CeilDiv(MaxLimit, MaxBatch - 1)
    /\ Len(batches) > 1

====
